---- MODULE Spec2Model ----
(***************************************************************************)
(* RedPanda (src/redpanda/orm.py): the pandas integration helper.  One     *)
(* object holds an ORM class, an engine, a query and the keyword options   *)
(* for pandas.read_sql(); frame() runs the query into a DataFrame, masks   *)
(* its columns and folds the transformations over it; parse() is a         *)
(* generator turning the rows of a DataFrame back into ORM objects.        *)
(*                                                                         *)
(* The module is Python 2 (reduce is the builtin, line 42).  The caller is *)
(* single-threaded: frame() runs to completion as one step, a generator    *)
(* returned by parse() advances one next() at a time.                      *)
(***************************************************************************)
EXTENDS Integers, Sequences, FiniteSets, TLC

VARIABLES
    ormcls,         \* self.ormcls
    engine,         \* self.engine
    query,          \* self.query
    read_sql,       \* self.read_sql: the keyword options, a mapping
    calls,          \* frame() calls made so far
    resolverCalls,  \* dialects.statement_and_params() invocations so far
    loaderCalls,    \* pandas.read_sql() invocations so far
    returns,        \* frame() calls that returned a DataFrame so far
    trace,          \* what the latest frame() call did and how it ended
    gen             \* the generator returned by the latest parse() call

vars == <<ormcls, engine, query, read_sql, calls, resolverCalls, loaderCalls, returns, trace, gen>>

\* ------------------------------------------------------------------ bounds

\* Rows of a table.
MaxRows == 2
\* Transformations passed to one frame() call.
MaxTrans == 2
\* frame() calls in one behaviour.
MaxCalls == 2

\* ------------------------------------------------------------- Python values

\* The empty dict.
EmptyDict == [k \in {} |-> TRUE]

\* None, and a list, as values of a keyword option.
PyNone == [py |-> "None"]
PyList(items) == [py |-> "list", items |-> items]

\* No DataFrame: the frame() call raised before it had one.
NoFrame == [none |-> TRUE]

Range(s) == {s[i] : i \in 1..Len(s)}

SeqsUpTo(S, n) == UNION {[1..k -> S] : k \in 0..n}

\* The position of the first column labelled name.
ColIndex(cols, name) == CHOOSE j \in 1..Len(cols) : cols[j] = name /\ \A i \in 1..(j-1) : cols[i] /= name

\* ------------------------------------------------------------------ inputs

\* The engines and queries a RedPanda is built with.  The query "malformed"
\* is one the dialect layer cannot render.
Engines == {"sqlite", "postgresql"}
Queries == {"select", "malformed"}

\* The keyword options a RedPanda is built with (**read_sql): any of params,
\* index_col and columns, columns being None or a list of labels.
ColumnLists == {<<>>, <<"a", "b">>, <<"b", "a">>, <<"c", "z">>}
ColumnsValues == {PyNone} \cup {PyList(c) : c \in ColumnLists}
KeywordOptions ==
    {(IF p THEN "params" :> [p |-> 1] ELSE EmptyDict)
        @@ (IF i THEN "index_col" :> "id" ELSE EmptyDict) : p \in BOOLEAN, i \in BOOLEAN}
        \cup {(IF p THEN "params" :> [p |-> 1] ELSE EmptyDict) @@ ("columns" :> c) :
                p \in BOOLEAN, c \in ColumnsValues}

\* The tables the database can answer the query with: columns a, b, c and
\* the first n rows of the relation, n up to MaxRows.  exec is the number of
\* the read_sql() execution that produced the DataFrame (0: not produced by
\* read_sql()).
DbColumns == <<"a", "b", "c">>
DbRow(i) == <<i, 10 + i, 20 + i>>
DbTables == {[cols |-> DbColumns, rows |-> [i \in 1..n |-> DbRow(i)], exec |-> 0] : n \in 0..MaxRows}

\* What the engine does with one execution: it answers with a table, or fails.
DbOutcomes == {[ok |-> TRUE, table |-> t] : t \in DbTables}
                \cup {[ok |-> FALSE, error |-> "OperationalError"]}

\* The transformation functions a caller passes to frame().
Transformations == {"reverse", "drop_first"}

\* ------------------------------------------------------------ collaborators

Returned(v) == [ok |-> TRUE, value |-> v, error |-> ""]
Raised(e) == [ok |-> FALSE, value |-> NoFrame, error |-> e]

\* dialects.statement_and_params(engine, query): the SQL text rendered for the
\* engine's dialect and the bound parameters of the query.
statement_and_params(eng, q) ==
    IF q = "malformed"
    THEN Raised("CompileError")
    ELSE [ok |-> TRUE, value |-> [sql |-> <<eng, q>>, params |-> [p |-> 2]], error |-> ""]

\* utils.dictcombine(a, b): the two mappings combined, b's value where both
\* define a key.
dictcombine(a, b) ==
    [k \in DOMAIN a \cup DOMAIN b |-> IF k \in DOMAIN b THEN b[k] ELSE a[k]]

\* pandas.read_sql(sql, con, **kwargs), the engine answering with db: a
\* DataFrame freshly materialized by execution number n, or the engine's error.
pandas_read_sql(sql, con, kwargs, db, n) ==
    IF db.ok THEN Returned([db.table EXCEPT !.exec = n]) ELSE Raised(db.error)

\* dict.get(key): the value, None when the key is absent.
Get(d, key) == IF key \in DOMAIN d THEN d[key] ELSE PyNone

\* dataframe[labels]: the columns labelled labels, in that order, every row
\* kept; KeyError when a label is no column.
GetItem(dataframe, labels) ==
    IF \A j \in 1..Len(labels) : labels[j] \in Range(dataframe.cols)
    THEN Returned([dataframe EXCEPT
            !.cols = labels,
            !.rows = [i \in 1..Len(dataframe.rows) |->
                        [j \in 1..Len(labels) |->
                            dataframe.rows[i][ColIndex(dataframe.cols, labels[j])]]]])
    ELSE Raised("KeyError")

Reverse(s) == [i \in 1..Len(s) |-> s[Len(s) + 1 - i]]

\* y(x): the transformation y called on the DataFrame x.  reverse reverses
\* the rows, drop_first drops the first row and raises on an empty table.
Call(y, x) ==
    CASE y = "reverse" -> Returned([x EXCEPT !.rows = Reverse(x.rows)])
      [] y = "drop_first" ->
            IF x.rows = <<>> THEN Raised("IndexError")
            ELSE Returned([x EXCEPT !.rows = Tail(x.rows)])

\* ------------------------------------------------------------------- frame

\* Mask as it would be were the option tested for truth, not against None:
\* an empty list of columns masks nothing.
Mask_truthy(dataframe) ==
    IF Get(read_sql, "columns") /= PyNone /\ read_sql["columns"].items /= <<>>
    THEN GetItem(dataframe, read_sql["columns"].items)
    ELSE Returned(dataframe)

\* Mask as it would be were the absent labels dropped from the list first.
Mask_present(dataframe) ==
    IF Get(read_sql, "columns") /= PyNone
    THEN GetItem(dataframe,
                 SelectSeq(read_sql["columns"].items, LAMBDA c : c \in Range(dataframe.cols)))
    ELSE Returned(dataframe)

\* Mask columns (lines 38-40).
Mask(dataframe) ==
    IF Get(read_sql, "columns") /= PyNone
    THEN GetItem(dataframe, read_sql["columns"].items)
    ELSE Returned(dataframe)

\* lambda x, y: y(x), with the call recorded.
Lambda(x, y) ==
    LET r == Call(y, x.value)
    IN [ok |-> r.ok, value |-> r.value, error |-> r.error,
        invoked |-> Append(x.invoked, [t |-> y, input |-> x.value])]

\* The last element of a sequence, and the sequence without it.
Last(s) == s[Len(s)]
Front(s) == SubSeq(s, 1, Len(s) - 1)

\* reduce as it would be were the sequence folded from the right.
RECURSIVE reduce_right(_, _)
reduce_right(sequence, initial) ==
    IF sequence = <<>> \/ ~initial.ok
    THEN initial
    ELSE reduce_right(Front(sequence), Lambda(initial, Last(sequence)))

\* reduce as it would be were a transformation's exception caught and the
\* DataFrame passed on as it was.
RECURSIVE reduce_catching(_, _)
reduce_catching(sequence, initial) ==
    IF sequence = <<>>
    THEN initial
    ELSE LET r == Lambda(initial, Head(sequence))
         IN reduce_catching(Tail(sequence),
                            IF r.ok THEN r ELSE [initial EXCEPT !.invoked = r.invoked])

\* reduce(function, sequence, initial): function folded over sequence from the
\* left, starting from initial; an exception ends it.
RECURSIVE reduce(_, _)
reduce(sequence, initial) ==
    IF sequence = <<>> \/ ~initial.ok
    THEN initial
    ELSE reduce(Tail(sequence), Lambda(initial, Head(sequence)))

\* The keyword arguments as they would be were the two mappings combined in
\* the other order.
LoaderOptions_swapped(params) == dictcombine([params |-> params], read_sql)

\* The keyword arguments of the read_sql() call (line 35).
LoaderOptions(params) == dictcombine(read_sql, [params |-> params])

\* Line 37 as it would be were the DataFrame of the previous call kept and
\* handed out again.
Load_cached(sql, kwargs, db) ==
    IF trace.loaded /= NoFrame
    THEN [calls |-> <<>>, ret |-> Returned(trace.loaded)]
    ELSE [calls |-> <<[sql |-> sql, con |-> engine, kwargs |-> kwargs]>>,
          ret |-> pandas_read_sql(sql, engine, kwargs, db, loaderCalls + 1)]

\* Read SQL into DataFrame (line 37): the call made, and what it returned or
\* raised.
Load(sql, kwargs, db) ==
    [calls |-> <<[sql |-> sql, con |-> engine, kwargs |-> kwargs]>>,
     ret |-> pandas_read_sql(sql, engine, kwargs, db, loaderCalls + 1)]

\* One frame(*transformations) call, the engine answering with db: what it
\* invoked, and the DataFrame it returns or the exception it raises.
FrameRun(transformations, db) ==
    LET sp == statement_and_params(engine, query)
        base == [op |-> "frame", transformations |-> transformations,
                 resolved |-> 1, loads |-> <<>>, loaded |-> NoFrame,
                 dataframe |-> NoFrame, invoked |-> <<>>,
                 outcome |-> "raised", result |-> NoFrame, error |-> sp.error]
    IN  IF ~sp.ok THEN base
        ELSE
        LET kwargs == LoaderOptions(sp.value.params)
            load == Load(sp.value.sql, kwargs, db)
            ld == load.ret
            read == [base EXCEPT !.loads = load.calls, !.error = ld.error]
        IN  IF ~ld.ok THEN read
            ELSE
            LET m == Mask(ld.value)
                loaded == [read EXCEPT !.loaded = ld.value, !.error = m.error]
            IN  IF ~m.ok THEN loaded
                ELSE
                LET r == reduce(transformations,
                                [ok |-> TRUE, value |-> m.value, error |-> "",
                                 invoked |-> <<>>])
                IN  [loaded EXCEPT !.dataframe = m.value,
                                   !.invoked = r.invoked,
                                   !.outcome = IF r.ok THEN "returned" ELSE "raised",
                                   !.result = r.value,
                                   !.error = r.error]

\* frame() as it would be were the merged options stored back on the object.
Frame_storing(transformations) ==
    /\ calls < MaxCalls
    /\ \E db \in DbOutcomes :
        LET run == FrameRun(transformations, db)
        IN  /\ trace' = run
            /\ calls' = calls + 1
            /\ resolverCalls' = resolverCalls + run.resolved
            /\ loaderCalls' = loaderCalls + Len(run.loads)
            /\ returns' = returns + (IF run.outcome = "returned" THEN 1 ELSE 0)
            /\ read_sql' = IF run.loads = <<>> THEN read_sql ELSE run.loads[1].kwargs
    /\ UNCHANGED <<ormcls, engine, query, gen>>

\* rp.frame(*transformations)
Frame(transformations) ==
    /\ calls < MaxCalls
    /\ \E db \in DbOutcomes :
        LET run == FrameRun(transformations, db)
        IN  /\ trace' = run
            /\ calls' = calls + 1
            /\ resolverCalls' = resolverCalls + run.resolved
            /\ loaderCalls' = loaderCalls + Len(run.loads)
            /\ returns' = returns + (IF run.outcome = "returned" THEN 1 ELSE 0)
    /\ UNCHANGED <<ormcls, engine, query, read_sql, gen>>

\* ------------------------------------------------------------------- parse

\* The ORM classes a RedPanda is built with: the attributes the constructor
\* takes as keywords, and the values its validation refuses.
OrmClasses == {[name |-> "User", fields |-> {"a", "b", "c"}, rejects |-> {2}],
               [name |-> "Pair", fields |-> {"a", "b"}, rejects |-> {}]}

\* The DataFrames a caller passes to parse(): up to MaxRows rows of the
\* relation in any order, all the columns or the columns b, a.
ParseLayouts == {DbColumns, <<"b", "a">>}
ParseTables ==
    {GetItem([cols |-> DbColumns, rows |-> [i \in 1..Len(r) |-> DbRow(r[i])], exec |-> 0], l).value :
        r \in SeqsUpTo({1, 2}, MaxRows), l \in ParseLayouts}

\* cls(**kwargs): the object, or the constructor's exception for a keyword
\* that is no attribute of the class or a value it refuses.
Construct(cls, kwargs) ==
    IF ~(DOMAIN kwargs \subseteq cls.fields)
    THEN [ok |-> FALSE, error |-> "TypeError"]
    ELSE IF \E k \in DOMAIN kwargs : kwargs[k] \in cls.rejects
    THEN [ok |-> FALSE, error |-> "ValueError"]
    ELSE [ok |-> TRUE, object |-> [cls |-> cls.name, attrs |-> kwargs]]

\* row.to_dict() of the i-th row dataframe.iterrows() produces: the row's
\* values keyed by column label.
RowToDict(dataframe, i) ==
    [c \in Range(dataframe.cols) |-> dataframe.rows[i][ColIndex(dataframe.cols, c)]]

NoGenerator ==
    [state |-> "none", dataframe |-> NoFrame, pos |-> 0, requests |-> 0,
     constructed |-> <<>>, yielded |-> <<>>, last |-> "none", error |-> ""]

\* The generator as the exception would leave it were parse() an iterator
\* object that steps over the failing row and can be asked again.
OnRaise_resumable(g, error) ==
    [g EXCEPT !.state = "suspended", !.pos = g.pos + 1, !.last = "raised",
              !.error = error]

\* The generator as the constructor's exception leaves it (line 53): the
\* exception leaves the generator's body, which finishes the generator.
OnRaise(g, error) ==
    [g EXCEPT !.state = "done", !.last = "raised", !.error = error]

\* next() on the generator g: the body runs from where it was suspended to
\* the next yield (lines 52-53), to the exception the constructor raises, or
\* to the end of the rows.  A finished generator raises StopIteration.
Resume(g) ==
    LET asked == [g EXCEPT !.requests = g.requests + 1]
    IN  IF g.state = "done" \/ g.pos = Len(g.dataframe.rows)
        THEN [asked EXCEPT !.state = "done", !.last = "stopped"]
        ELSE
        LET kwargs == RowToDict(g.dataframe, g.pos + 1)
            made == Construct(ormcls, kwargs)
            called == [asked EXCEPT !.constructed = Append(g.constructed, kwargs)]
        IN  IF made.ok
            THEN [called EXCEPT !.state = "suspended", !.pos = g.pos + 1,
                                !.yielded = Append(g.yielded, made.object),
                                !.last = "yielded"]
            ELSE OnRaise(called, made.error)

\* parse() as it would be were the rows after the first the ones iterated.
NewGenerator_skipping(dataframe) ==
    [NoGenerator EXCEPT !.state = "created", !.dataframe = dataframe,
                        !.pos = IF dataframe.rows = <<>> THEN 0 ELSE 1]

\* parse() as it would be were the first object built before the generator
\* is handed to the caller.
NewGenerator_primed(dataframe) ==
    [Resume([NoGenerator EXCEPT !.state = "created", !.dataframe = dataframe])
        EXCEPT !.requests = 0]

\* rp.parse(dataframe) (lines 44-52): the generator object; none of its body
\* has run.
NewGenerator(dataframe) ==
    [NoGenerator EXCEPT !.state = "created", !.dataframe = dataframe]

\* rp.parse(dataframe)
Parse(dataframe) ==
    /\ gen' = NewGenerator(dataframe)
    /\ UNCHANGED <<ormcls, engine, query, read_sql, calls, resolverCalls, loaderCalls, returns, trace>>

\* next(generator), the caller asking the generator for its next object
GenNext ==
    /\ gen.state /= "none"
    /\ gen.requests < MaxRows + 1
    /\ gen' = Resume(gen)
    /\ UNCHANGED <<ormcls, engine, query, read_sql, calls, resolverCalls, loaderCalls, returns, trace>>

\* ----------------------------------------------------------- specification

NoTrace ==
    [op |-> "none", transformations |-> <<>>, resolved |-> 0, loads |-> <<>>,
     loaded |-> NoFrame, dataframe |-> NoFrame, invoked |-> <<>>,
     outcome |-> "none", result |-> NoFrame, error |-> ""]

\* RedPanda(ormcls, engine, query, **read_sql) (lines 18-22)
Init ==
    /\ ormcls \in OrmClasses
    /\ engine \in Engines
    /\ query \in Queries
    /\ read_sql \in KeywordOptions
    /\ calls = 0
    /\ resolverCalls = 0
    /\ loaderCalls = 0
    /\ returns = 0
    /\ trace = NoTrace
    /\ gen = NoGenerator

\* A caller that only calls frame().
NextFrame ==
    \E transformations \in SeqsUpTo(Transformations, MaxTrans) : Frame(transformations)

SpecFrame == Init /\ [][NextFrame]_vars

\* A caller that only calls parse() and iterates what it returns.
NextParse ==
    \/ \E dataframe \in ParseTables : Parse(dataframe)
    \/ GenNext

SpecParse == Init /\ [][NextParse]_vars

\* A caller that mixes the two in any order, a generator staying suspended
\* across frame() calls: it passes frame() at most one transformation and
\* parse() a table as the database holds it.
Next ==
    \/ \E transformations \in SeqsUpTo(Transformations, 1) : Frame(transformations)
    \/ \E dataframe \in DbTables : Parse(dataframe)
    \/ GenNext

Spec == Init /\ [][Next]_vars

\* ------------------------------------------------------ properties of frame

\* The stored columns option is a list.
HasColumnList == "columns" \in DOMAIN read_sql /\ read_sql["columns"].py = "list"

\* The value in row i of the column labelled name.
Cell(dataframe, i, name) == dataframe.rows[i][ColIndex(dataframe.cols, name)]

\* tn(...t2(t1(T))...), every transformation returning.
RECURSIVE Compose(_, _)
Compose(ts, T) == IF ts = <<>> THEN T ELSE Call(Last(ts), Compose(Front(ts), T)).value

\* The transformations t1..ti all return on T.
RECURSIVE AllReturn(_, _)
AllReturn(ts, T) ==
    ts = <<>> \/ (AllReturn(Front(ts), T) /\ Call(Last(ts), Compose(Front(ts), T)).ok)

\* The DataFrame frame() hands to the first transformation or, when there are
\* none, returns.
HandedOn == IF trace.invoked /= <<>> THEN trace.invoked[1].input ELSE trace.result

\* C1: a frame(t1, ..., tn) call that returns has invoked exactly t1, ..., tn,
\* in that order and once each, t1 on the (masked) DataFrame of the loader and
\* every later one on the output of the one before, and returns
\* tn(...t1(T)...); with no transformations it returns T itself.
C1_TransformationsComposeLeftToRight ==
    (trace.op = "frame" /\ trace.outcome = "returned") =>
        LET ts == trace.transformations
            T == trace.dataframe
        IN  /\ T /= NoFrame
            /\ (Get(read_sql, "columns") = PyNone => T = trace.loaded)
            /\ Len(trace.invoked) = Len(ts)
            /\ \A i \in 1..Len(ts) :
                /\ trace.invoked[i].t = ts[i]
                /\ trace.invoked[i].input = Compose(SubSeq(ts, 1, i - 1), T)
            /\ trace.result = Compose(ts, T)
            /\ (ts = <<>> => trace.result = T)

\* Two different transformations over two rows and a column mask: the order
\* of the calls shows in the result.
C1_Witness ==
    /\ trace.outcome = "returned"
    /\ trace.transformations = <<"reverse", "drop_first">>
    /\ Len(trace.loaded.rows) = 2
    /\ HasColumnList
    /\ trace.result /= Compose(<<"drop_first", "reverse">>, trace.dataframe)

\* C2: with a stored list of columns C, all of them columns of the loaded
\* table, the DataFrame handed to the first transformation (or returned) has
\* exactly the columns C in the order of C, and the loaded table's rows in
\* their order with their values in those columns.
C2_MaskKeepsListedColumns ==
    (/\ trace.op = "frame"
     /\ trace.loaded /= NoFrame
     /\ HasColumnList
     /\ Range(read_sql["columns"].items) \subseteq Range(trace.loaded.cols)) =>
        LET C == read_sql["columns"].items
            T == trace.loaded
            D == HandedOn
        IN  /\ D /= NoFrame
            /\ D.cols = C
            /\ Len(D.rows) = Len(T.rows)
            /\ \A i \in 1..Len(T.rows) :
                /\ Len(D.rows[i]) = Len(C)
                /\ \A j \in 1..Len(C) : D.rows[i][j] = Cell(T, i, C[j])

\* The columns b, a of a two-row table with columns a, b, c.
C2_Witness ==
    /\ trace.outcome = "returned"
    /\ HasColumnList
    /\ read_sql["columns"].items = <<"b", "a">>
    /\ Len(trace.loaded.rows) = 2
    /\ trace.transformations /= <<>>

\* C3: the keyword arguments of every read_sql() call are the stored options
\* with params set to the parameters the dialect layer returned: the stored
\* params, if any, are overridden and every other stored option is passed as
\* stored.
C3_LoaderOptionsAreRightBiasedMerge ==
    \A n \in 1..Len(trace.loads) :
        LET kwargs == trace.loads[n].kwargs
        IN  /\ DOMAIN kwargs = DOMAIN read_sql \cup {"params"}
            /\ kwargs["params"] = statement_and_params(engine, query).value.params
            /\ \A k \in DOMAIN read_sql \ {"params"} : kwargs[k] = read_sql[k]

\* Stored options that define params (another value than the resolved one)
\* and index_col, and a read_sql() call made with them.
C3_Witness ==
    /\ Len(trace.loads) = 1
    /\ trace.loaded /= NoFrame
    /\ DOMAIN read_sql = {"params", "index_col"}
    /\ read_sql["params"] /= statement_and_params(engine, query).value.params

\* C5: every frame() call invokes the dialect layer once and read_sql() at
\* most once, a call that returns exactly once; the DataFrame a call returns
\* was materialized by that call's own execution, the latest one; as long as
\* every call returned, the query has been executed once per call.
C5_OneExecutionPerCall ==
    /\ trace.op = "frame" => (trace.resolved = 1 /\ Len(trace.loads) <= 1)
    /\ trace.outcome = "returned" =>
        /\ Len(trace.loads) = 1
        /\ trace.loaded.exec = loaderCalls
        /\ HandedOn.exec = loaderCalls
        /\ trace.result.exec = loaderCalls
    /\ resolverCalls = calls
    /\ returns <= loaderCalls /\ loaderCalls <= calls
    /\ returns = calls => loaderCalls = calls

\* Two frame() calls on the same RedPanda, both returning.
C5_Witness ==
    /\ calls = 2
    /\ returns = 2
    /\ trace.outcome = "returned"

\* The first transformation of ts that raises on T is the i-th.
FirstRaising(ts, T, i) ==
    /\ i \in 1..Len(ts)
    /\ AllReturn(SubSeq(ts, 1, i - 1), T)
    /\ ~Call(ts[i], Compose(SubSeq(ts, 1, i - 1), T)).ok

\* C7: when transformation ti raises, frame() raises that exception, has
\* invoked t1..ti and none of the later ones, and returns no DataFrame.
C7_TransformationErrorPropagates ==
    \A i \in 1..Len(trace.transformations) :
        (trace.dataframe /= NoFrame
            /\ FirstRaising(trace.transformations, trace.dataframe, i)) =>
            LET ts == trace.transformations
                T == trace.dataframe
            IN  /\ trace.outcome = "raised"
                /\ trace.error = Call(ts[i], Compose(SubSeq(ts, 1, i - 1), T)).error
                /\ [k \in 1..Len(trace.invoked) |-> trace.invoked[k].t] = SubSeq(ts, 1, i)
                /\ trace.result = NoFrame

\* The first of two transformations raises: the second must not run.
C7_Witness ==
    /\ trace.op = "frame"
    /\ trace.dataframe /= NoFrame
    /\ Len(trace.transformations) = 2
    /\ FirstRaising(trace.transformations, trace.dataframe, 1)

\* C9: when the stored list of columns names a column the loaded table does
\* not have, frame() raises after exactly one read_sql() call, invokes no
\* transformation and returns no DataFrame.
C9_AbsentColumnRaises ==
    (/\ trace.op = "frame"
     /\ trace.loaded /= NoFrame
     /\ HasColumnList
     /\ ~(Range(read_sql["columns"].items) \subseteq Range(trace.loaded.cols))) =>
        /\ trace.outcome = "raised"
        /\ trace.error = "KeyError"
        /\ Len(trace.loads) = 1
        /\ trace.invoked = <<>>
        /\ trace.result = NoFrame

\* The stored columns c, z, a loaded table and transformations to run.
C9_Witness ==
    /\ trace.op = "frame"
    /\ trace.loaded /= NoFrame
    /\ HasColumnList
    /\ "z" \in Range(read_sql["columns"].items)
    /\ trace.transformations /= <<>>

\* ------------------------------------------------------ properties of parse

\* The mapping of the i-th row: its values by column name.
RowMapping(dataframe, i) == [c \in Range(dataframe.cols) |-> Cell(dataframe, i, c)]

\* The constructor accepts the i-th row of the generator's table.
Accepts(i) == Construct(ormcls, RowMapping(gen.dataframe, i)).ok

\* The object built from the i-th row of the generator's table.
ObjectOf(i) == [cls |-> ormcls.name, attrs |-> RowMapping(gen.dataframe, i)]

\* C4: over a table of n rows the constructor accepts, the generator yields
\* the object of row 1, then of row 2, ..., each built from that row's
\* mapping; once it has stopped it has yielded exactly n objects (none for
\* n = 0) and it never raises.
C4_ParseYieldsOneObjectPerRow ==
    (gen.state /= "none" /\ \A i \in 1..Len(gen.dataframe.rows) : Accepts(i)) =>
        /\ Len(gen.yielded) <= Len(gen.dataframe.rows)
        /\ Len(gen.constructed) = Len(gen.yielded)
        /\ \A i \in 1..Len(gen.yielded) :
            /\ gen.constructed[i] = RowMapping(gen.dataframe, i)
            /\ gen.yielded[i] = ObjectOf(i)
        /\ gen.last /= "raised"
        /\ gen.last = "stopped" => Len(gen.yielded) = Len(gen.dataframe.rows)

\* A table of two different rows in the columns b, a, iterated to the end.
C4_Witness ==
    /\ gen.last = "stopped"
    /\ Len(gen.yielded) = 2
    /\ gen.dataframe.cols = <<"b", "a">>
    /\ gen.yielded[1] /= gen.yielded[2]

\* Row k is the first row of the generator's table the constructor refuses.
FirstRefused(k) ==
    /\ k \in 1..Len(gen.dataframe.rows)
    /\ \A i \in 1..(k - 1) : Accepts(i)
    /\ ~Accepts(k)

\* C8: when row k is the first the constructor refuses, the first k-1
\* requests yield the objects of rows 1..k-1 in order, the k-th raises the
\* constructor's exception, the constructor is never called on a row after
\* k, and every later request finds the generator finished.
C8_ConstructorErrorEndsParse ==
    \A k \in 1..(IF gen.state = "none" THEN 0 ELSE Len(gen.dataframe.rows)) :
        FirstRefused(k) =>
            /\ \A i \in 1..Len(gen.yielded) : gen.yielded[i] = ObjectOf(i)
            /\ \A i \in 1..Len(gen.constructed) :
                gen.constructed[i] = RowMapping(gen.dataframe, i)
            /\ gen.requests < k =>
                /\ Len(gen.yielded) = gen.requests
                /\ gen.last /= "raised" /\ gen.last /= "stopped"
            /\ gen.requests >= k =>
                /\ Len(gen.yielded) = k - 1
                /\ Len(gen.constructed) = k
                /\ gen.error = Construct(ormcls, RowMapping(gen.dataframe, k)).error
                /\ gen.state = "done"
            /\ gen.requests = k => gen.last = "raised"
            /\ gen.requests > k => gen.last = "stopped"

\* The first of two rows is refused, and the caller has asked again after the
\* exception.
C8_Witness ==
    /\ gen.state = "done"
    /\ Len(gen.dataframe.rows) = 2
    /\ FirstRefused(1)
    /\ gen.requests = 2

\* The constructor calls of a generator against the requests made of it: none
\* before the first request, one per request up to and including the last
\* request answered with an object or an exception, never more than the
\* requests.
C10_LazyState ==
    /\ gen.state = "created" => (gen.requests = 0 /\ gen.constructed = <<>>)
    /\ gen.state \in {"created", "suspended"} =>
        (Len(gen.constructed) = gen.requests /\ Len(gen.yielded) = gen.requests)
    /\ gen.last \in {"yielded", "raised"} => Len(gen.constructed) = gen.requests
    /\ Len(gen.constructed) <= gen.requests

\* C10: parse() and the iteration of its generator never invoke the dialect
\* layer or read_sql(); a generator nobody has asked has built nothing; while
\* it is being iterated the constructor has been called once per request,
\* one call per step, and it is never called more often than the caller has
\* asked.
C10_ParseIsLazyAndQueryFree ==
    /\ []C10_LazyState
    /\ [][gen' /= gen =>
            /\ resolverCalls' = resolverCalls
            /\ loaderCalls' = loaderCalls
            /\ Len(gen'.constructed) <= Len(gen.constructed) + 1]_vars

\* A generator suspended on the first of two rows, on a RedPanda whose
\* frame() has run the query.
C10_Witness ==
    /\ gen.state = "suspended"
    /\ gen.requests = 1
    /\ Len(gen.dataframe.rows) = 2
    /\ loaderCalls >= 1

\* ------------------------------------------------- properties of the object

\* C6: no frame() call, parse() call or step of a generator, returning or
\* raising, changes self.ormcls, self.engine, self.query or self.read_sql:
\* the stored options keep their keys and values, the params passed to
\* read_sql() are not written into them.
C6_StoredFieldsNeverChange ==
    [][/\ ormcls' = ormcls
       /\ engine' = engine
       /\ query' = query
       /\ read_sql' = read_sql]_vars

\* Stored options without params, after a frame() call that raised, one that
\* returned, and a generator that raised.
C6_Witness ==
    /\ "params" \notin DOMAIN read_sql
    /\ calls = 2
    /\ returns = 1
    /\ gen.last = "raised"

====
